---- MODULE Spec2Model ----
(***************************************************************************)
(* Model of the itinerary optimizer of app.py: the travel-time matrix,     *)
(* the day/period packer (_evaluate_schedule), the simulated-annealing     *)
(* driver (solve_simulated_annealing) and the result assembly              *)
(* (run_optimization_logic).                                               *)
(*                                                                         *)
(* A POI is a record (a Python dict).  Its keys are id, type, pos,         *)
(* time_min, day and, once a run has stamped it, period and transit_prev.  *)
(* pos stands for the (lat, lon) pair: POIs lie on one line and pos is     *)
(* the coordinate in metres, so the geodesic distance of two POIs is the   *)
(* absolute difference of their pos.                                       *)
(***************************************************************************)
EXTENDS Integers, Sequences, FiniteSets

\* ---------------------------------------------------------------- bounds
MaxVisit == 3        \* most visit POIs in an input collection
iterations == 2      \* annealing steps of one run (3000 in the source)

\* ------------------------------------------------------ program constants
WALKING_SPEED_KMH == 5
DRIVING_SPEED_KMH == 35
TOLERANCIA_MINUTOS == 30
MAX_DIA == 10
VISIT_WEIGHT == 10000
TEMP_INICIAL == 1000
COOLING_PERMILLE == 995

MSG_NO_HOTEL == "Defina um Hotel/Base."
MSG_NO_VISIT == "Adicione locais do tipo 'Visita' para gerar roteiro."
MSG_DONE == "Otimização concluída!"

VARIABLES
    pois,               \* the caller's collection (the list object passed in)
    pois_in,            \* its value when the call was made
    max_h_manha, max_h_tarde,
    pc,                 \* "call", "loop", "solved", "return", "raise"
    result, result_none, msg,
    opt_pois,           \* TravelOptimizer.pois
    hotel,              \* TravelOptimizer.hotel, as a one-element or empty list
    max_min_manha, max_min_tarde,
    dist_matrix,
    current_solution, current_energy,
    best_energy, best_schedule,
    new_solution, new_eval, min_seen,
    it, temp,
    optimized_schedule

vars == <<pois, pois_in, max_h_manha, max_h_tarde, pc, result, result_none, msg,
          opt_pois, hotel, max_min_manha, max_min_tarde, dist_matrix,
          current_solution, current_energy, best_energy, best_schedule,
          new_solution, new_eval, min_seen, it, temp, optimized_schedule>>

\* ---------------------------------------------------------------- helpers

\* dict.update / item assignment: keys of upd overwrite or are added
Update(rec, upd) ==
    [k \in (DOMAIN rec) \cup (DOMAIN upd) |-> IF k \in DOMAIN upd THEN upd[k] ELSE rec[k]]

\* list.pop() in place of list.pop(i)
PopAt_Last(s, i) == [j \in 1..(Len(s) - 1) |-> s[j]]

\* list.pop(i), for a 1-based position i
PopAt(s, i) == [j \in 1..(Len(s) - 1) |-> IF j < i THEN s[j] ELSE s[j + 1]]

\* s[a], s[b] = s[b], s[a]
Swap_Overwrite(s, a, b) == [j \in 1..Len(s) |-> IF j = a THEN s[b] ELSE s[j]]

Swap(s, a, b) ==
    [j \in 1..Len(s) |-> IF j = a THEN s[b] ELSE IF j = b THEN s[a] ELSE s[j]]

Ids(s) == {s[j].id : j \in 1..Len(s)}

Abs(x) == IF x < 0 THEN -x ELSE x

Orderings(s) ==
    {p \in [1..Len(s) -> 1..Len(s)] : \A a, b \in 1..Len(s) : p[a] = p[b] => a = b}

Permuted(s, p) == [j \in 1..Len(s) |-> s[p[j]]]

\* ------------------------------------------------------ travel-time model

\* geodesic(...).km * 1000, for two POIs on the line
Geodesic(p1, p2) == Abs(p1.pos - p2.pos)

\* the minutes rounded up instead of truncated
TravelMinutes_RoundUp(p1, p2) ==
    LET speed == IF p1.type = "hotel" THEN DRIVING_SPEED_KMH ELSE WALKING_SPEED_KMH
    IN (Geodesic(p1, p2) * 60 + speed * 1000 - 1) \div (speed * 1000)

\* int((dist / speed) * 60) with dist in km; dist is held in metres here
TravelMinutes(p1, p2) ==
    LET speed == IF p1.type = "hotel" THEN DRIVING_SPEED_KMH ELSE WALKING_SPEED_KMH
    IN (Geodesic(p1, p2) * 60) \div (speed * 1000)

\* the dict after the double loop: a key written twice keeps the later value,
\* which is the one of the last node carrying each id
PrecomputeDistances(ps, h) ==
    LET all_nodes == ps \o <<h>>
        LastWithId(a) ==
            all_nodes[CHOOSE j \in 1..Len(all_nodes) :
                         /\ all_nodes[j].id = a
                         /\ \A m \in (j + 1)..Len(all_nodes) : all_nodes[m].id # a]
    IN [k \in {pr \in Ids(all_nodes) \X Ids(all_nodes) : pr[1] # pr[2]} |->
           TravelMinutes(LastWithId(k[1]), LastWithId(k[2]))]

GetDistTime(dm, id1, id2) == IF <<id1, id2>> \in DOMAIN dm THEN dm[<<id1, id2>>] ELSE 0

\* ----------------------------------------------------- day/period packer

\* One period's scan (the inner while loop): st carries pendentes, loc_atual
\* (its id), tempo_gasto, the period's list and the two running totals.
RECURSIVE PeriodScan_NoTravel(_, _, _, _, _, _)
PeriodScan_NoTravel(st, i, dm, budget, dia, period) ==
    IF i > Len(st.pendentes) THEN st
    ELSE LET poi == st.pendentes[i]
             travel == GetDistTime(dm, st.loc_atual, poi.id)
             cost == travel + poi.time_min
         IN IF st.tempo_gasto + poi.time_min <= budget
            THEN PeriodScan_NoTravel(
                   [pendentes |-> PopAt(st.pendentes, i),
                    loc_atual |-> poi.id,
                    tempo_gasto |-> st.tempo_gasto + cost,
                    placed |-> Append(st.placed,
                                 Update(poi, [day |-> dia, period |-> period,
                                              transit_prev |-> travel])),
                    total_travel |-> st.total_travel + travel,
                    visited_count |-> st.visited_count + 1],
                   i, dm, budget, dia, period)
            ELSE PeriodScan_NoTravel(st, i + 1, dm, budget, dia, period)

\* the scan ended by the first POI that does not fit
RECURSIVE PeriodScan_StopAtFirstFailure(_, _, _, _, _, _)
PeriodScan_StopAtFirstFailure(st, i, dm, budget, dia, period) ==
    IF i > Len(st.pendentes) THEN st
    ELSE LET poi == st.pendentes[i]
             travel == GetDistTime(dm, st.loc_atual, poi.id)
             cost == travel + poi.time_min
         IN IF st.tempo_gasto + cost <= budget
            THEN PeriodScan_StopAtFirstFailure(
                   [pendentes |-> PopAt(st.pendentes, i),
                    loc_atual |-> poi.id,
                    tempo_gasto |-> st.tempo_gasto + cost,
                    placed |-> Append(st.placed,
                                 Update(poi, [day |-> dia, period |-> period,
                                              transit_prev |-> travel])),
                    total_travel |-> st.total_travel + travel,
                    visited_count |-> st.visited_count + 1],
                   i, dm, budget, dia, period)
            ELSE st

RECURSIVE PeriodScan(_, _, _, _, _, _)
PeriodScan(st, i, dm, budget, dia, period) ==
    IF i > Len(st.pendentes) THEN st
    ELSE LET poi == st.pendentes[i]
             travel == GetDistTime(dm, st.loc_atual, poi.id)
             cost == travel + poi.time_min
         IN IF st.tempo_gasto + cost <= budget
            THEN PeriodScan(
                   [pendentes |-> PopAt(st.pendentes, i),
                    loc_atual |-> poi.id,
                    tempo_gasto |-> st.tempo_gasto + cost,
                    placed |-> Append(st.placed,
                                 Update(poi, [day |-> dia, period |-> period,
                                              transit_prev |-> travel])),
                    total_travel |-> st.total_travel + travel,
                    visited_count |-> st.visited_count + 1],
                   i, dm, budget, dia, period)
            ELSE PeriodScan(st, i + 1, dm, budget, dia, period)

\* the afternoon scan starting at the hotel whatever the morning placed
RECURSIVE DayLoop_AfternoonFromHotel(_, _, _, _, _)
DayLoop_AfternoonFromHotel(e, h, dm, maxM, maxT) ==
    IF ~(e.pendentes # <<>> /\ e.dia <= MAX_DIA) THEN e
    ELSE LET manha == PeriodScan(
                        [pendentes |-> e.pendentes, loc_atual |-> h.id, tempo_gasto |-> 0,
                         placed |-> <<>>, total_travel |-> e.total_travel,
                         visited_count |-> e.visited_count],
                        1, dm, maxM, e.dia, "Manhã")
             manha_pois == manha.placed
             tarde == PeriodScan(
                        [pendentes |-> manha.pendentes,
                         loc_atual |-> h.id,
                         tempo_gasto |-> 0,
                         placed |-> <<>>, total_travel |-> manha.total_travel,
                         visited_count |-> manha.visited_count],
                        1, dm, maxT, e.dia, "Tarde")
             tarde_pois == tarde.placed
         IN IF manha_pois # <<>> \/ tarde_pois # <<>>
            THEN DayLoop_AfternoonFromHotel([schedule |-> e.schedule \o manha_pois \o tarde_pois,
                          pendentes |-> tarde.pendentes,
                          total_travel |-> tarde.total_travel,
                          visited_count |-> tarde.visited_count,
                          dia |-> e.dia + 1],
                         h, dm, maxM, maxT)
            ELSE e

\* the two period budgets exchanged
RECURSIVE DayLoop_BudgetsSwapped(_, _, _, _, _)
DayLoop_BudgetsSwapped(e, h, dm, maxM, maxT) ==
    IF ~(e.pendentes # <<>> /\ e.dia <= MAX_DIA) THEN e
    ELSE LET manha == PeriodScan(
                        [pendentes |-> e.pendentes, loc_atual |-> h.id, tempo_gasto |-> 0,
                         placed |-> <<>>, total_travel |-> e.total_travel,
                         visited_count |-> e.visited_count],
                        1, dm, maxT, e.dia, "Manhã")
             manha_pois == manha.placed
             tarde == PeriodScan(
                        [pendentes |-> manha.pendentes,
                         loc_atual |-> IF manha_pois # <<>>
                                       THEN manha_pois[Len(manha_pois)].id ELSE h.id,
                         tempo_gasto |-> 0,
                         placed |-> <<>>, total_travel |-> manha.total_travel,
                         visited_count |-> manha.visited_count],
                        1, dm, maxM, e.dia, "Tarde")
             tarde_pois == tarde.placed
         IN IF manha_pois # <<>> \/ tarde_pois # <<>>
            THEN DayLoop_BudgetsSwapped([schedule |-> e.schedule \o manha_pois \o tarde_pois,
                          pendentes |-> tarde.pendentes,
                          total_travel |-> tarde.total_travel,
                          visited_count |-> tarde.visited_count,
                          dia |-> e.dia + 1],
                         h, dm, maxM, maxT)
            ELSE e

\* the loop left as soon as a morning places nothing
RECURSIVE DayLoop_StopOnEmptyMorning(_, _, _, _, _)
DayLoop_StopOnEmptyMorning(e, h, dm, maxM, maxT) ==
    IF ~(e.pendentes # <<>> /\ e.dia <= MAX_DIA) THEN e
    ELSE LET manha == PeriodScan(
                        [pendentes |-> e.pendentes, loc_atual |-> h.id, tempo_gasto |-> 0,
                         placed |-> <<>>, total_travel |-> e.total_travel,
                         visited_count |-> e.visited_count],
                        1, dm, maxM, e.dia, "Manhã")
             manha_pois == manha.placed
             tarde == PeriodScan(
                        [pendentes |-> manha.pendentes,
                         loc_atual |-> IF manha_pois # <<>>
                                       THEN manha_pois[Len(manha_pois)].id ELSE h.id,
                         tempo_gasto |-> 0,
                         placed |-> <<>>, total_travel |-> manha.total_travel,
                         visited_count |-> manha.visited_count],
                        1, dm, maxT, e.dia, "Tarde")
             tarde_pois == tarde.placed
         IN IF manha_pois # <<>>
            THEN DayLoop_StopOnEmptyMorning([schedule |-> e.schedule \o manha_pois \o tarde_pois,
                          pendentes |-> tarde.pendentes,
                          total_travel |-> tarde.total_travel,
                          visited_count |-> tarde.visited_count,
                          dia |-> e.dia + 1],
                         h, dm, maxM, maxT)
            ELSE e

\* The outer while loop; e carries schedule, pendentes, total_travel,
\* visited_count and dia.
\* the afternoon's entries put before the morning's in the schedule
RECURSIVE DayLoop_AfternoonListedFirst(_, _, _, _, _)
DayLoop_AfternoonListedFirst(e, h, dm, maxM, maxT) ==
    IF ~(e.pendentes # <<>> /\ e.dia <= MAX_DIA) THEN e
    ELSE LET manha == PeriodScan(
                        [pendentes |-> e.pendentes, loc_atual |-> h.id, tempo_gasto |-> 0,
                         placed |-> <<>>, total_travel |-> e.total_travel,
                         visited_count |-> e.visited_count],
                        1, dm, maxM, e.dia, "Manhã")
             manha_pois == manha.placed
             tarde == PeriodScan(
                        [pendentes |-> manha.pendentes,
                         loc_atual |-> IF manha_pois # <<>>
                                       THEN manha_pois[Len(manha_pois)].id ELSE h.id,
                         tempo_gasto |-> 0,
                         placed |-> <<>>, total_travel |-> manha.total_travel,
                         visited_count |-> manha.visited_count],
                        1, dm, maxT, e.dia, "Tarde")
             tarde_pois == tarde.placed
         IN IF manha_pois # <<>> \/ tarde_pois # <<>>
            THEN DayLoop_AfternoonListedFirst(
                         [schedule |-> e.schedule \o tarde_pois \o manha_pois,
                          pendentes |-> tarde.pendentes,
                          total_travel |-> tarde.total_travel,
                          visited_count |-> tarde.visited_count,
                          dia |-> e.dia + 1],
                         h, dm, maxM, maxT)
            ELSE e

RECURSIVE DayLoop(_, _, _, _, _)
DayLoop(e, h, dm, maxM, maxT) ==
    IF ~(e.pendentes # <<>> /\ e.dia <= MAX_DIA) THEN e
    ELSE LET manha == PeriodScan(
                        [pendentes |-> e.pendentes, loc_atual |-> h.id, tempo_gasto |-> 0,
                         placed |-> <<>>, total_travel |-> e.total_travel,
                         visited_count |-> e.visited_count],
                        1, dm, maxM, e.dia, "Manhã")
             manha_pois == manha.placed
             tarde == PeriodScan(
                        [pendentes |-> manha.pendentes,
                         loc_atual |-> IF manha_pois # <<>>
                                       THEN manha_pois[Len(manha_pois)].id ELSE h.id,
                         tempo_gasto |-> 0,
                         placed |-> <<>>, total_travel |-> manha.total_travel,
                         visited_count |-> manha.visited_count],
                        1, dm, maxT, e.dia, "Tarde")
             tarde_pois == tarde.placed
         IN IF manha_pois # <<>> \/ tarde_pois # <<>>
            THEN DayLoop([schedule |-> e.schedule \o manha_pois \o tarde_pois,
                          pendentes |-> tarde.pendentes,
                          total_travel |-> tarde.total_travel,
                          visited_count |-> tarde.visited_count,
                          dia |-> e.dia + 1],
                         h, dm, maxM, maxT)
            ELSE e

\* _evaluate_schedule: (schedule, visited_count, total_travel); the record
\* also keeps the loop's final pendentes and dia.
EvaluateSchedule(ordered_pois, h, dm, maxM, maxT) ==
    DayLoop([schedule |-> <<>>, pendentes |-> ordered_pois, total_travel |-> 0,
             visited_count |-> 0, dia |-> 1],
            h, dm, maxM, maxT)

Energy(ev) == -(ev.visited_count * VISIT_WEIGHT) + ev.total_travel

\* ------------------------------------------------------------- the inputs

Hours == {1, 2}                     \* the two "Horas" inputs (1..8 in the form)
VisitDur == {60, 80, 600}           \* time_min of a visit POI
VisitPos(i) == 1000 * ((i + 1) \div 2) + 50 * ((i + 1) % 2)

\* A record as the "add POI" form creates it (day 0, no period), or as an
\* earlier run or a manual move left it (prior = TRUE).
HotelPoi(prior) ==
    IF prior
    THEN [id |-> 0, type |-> "hotel", pos |-> 0, time_min |-> 0, day |-> 0, period |-> "Base"]
    ELSE [id |-> 0, type |-> "hotel", pos |-> 0, time_min |-> 0, day |-> 0]

VisitPoi(i, dur, prior) ==
    IF prior
    THEN [id |-> i, type |-> "visit", pos |-> VisitPos(i), time_min |-> dur,
          day |-> 2, period |-> "Tarde", transit_prev |-> 7]
    ELSE [id |-> i, type |-> "visit", pos |-> VisitPos(i), time_min |-> dur, day |-> 0]

OtherPoi(i, type, prior) ==
    IF prior
    THEN [id |-> i, type |-> type, pos |-> 500, time_min |-> 45, day |-> 3, period |-> "Tarde"]
    ELSE [id |-> i, type |-> type, pos |-> 500, time_min |-> 45, day |-> 0]

\* food, first visit, hotel, the other visits, transport: each optional
Collection(hasHotel, durs, hasOthers, prior) ==
    (IF hasOthers THEN <<OtherPoi(90, "food", prior)>> ELSE <<>>)
    \o (IF Len(durs) >= 1 THEN <<VisitPoi(1, durs[1], prior)>> ELSE <<>>)
    \o (IF hasHotel THEN <<HotelPoi(prior)>> ELSE <<>>)
    \o [j \in 1..(Len(durs) - 1) |-> VisitPoi(j + 1, durs[j + 1], prior)]
    \o (IF hasOthers THEN <<OtherPoi(91, "transport", prior)>> ELSE <<>>)

NoEval == [schedule |-> <<>>, pendentes |-> <<>>, total_travel |-> 0,
           visited_count |-> 0, dia |-> 1]

Init ==
    /\ \E hasHotel, hasOthers, prior \in BOOLEAN :
       \E n \in 0..MaxVisit :
       \E durs \in {d \in [1..n -> VisitDur] : \A j \in 1..(n - 1) : d[j] <= d[j + 1]} :
          /\ prior => hasOthers
          /\ pois = Collection(hasHotel, durs, hasOthers, prior)
    /\ pois_in = pois
    /\ max_h_manha \in Hours
    /\ max_h_tarde \in Hours
    /\ pc = "call"
    /\ result = <<>>
    /\ result_none = FALSE
    /\ msg = ""
    /\ opt_pois = <<>>
    /\ hotel = <<>>
    /\ max_min_manha = 0
    /\ max_min_tarde = 0
    /\ dist_matrix = <<>>
    /\ current_solution = <<>>
    /\ current_energy = 0
    /\ best_energy = 0
    /\ best_schedule = <<>>
    /\ new_solution = <<>>
    /\ new_eval = NoEval
    /\ min_seen = 0
    /\ it = 0
    /\ temp = 0
    /\ optimized_schedule = <<>>

\* -------------------------------------------------- run_optimization_logic

IsHotel(p) == p.type = "hotel"
IsVisit(p) == p.type = "visit"

\* the first record, whatever its type
FindHotel_First(ps) == IF ps = <<>> THEN <<>> ELSE <<ps[1]>>

\* next((p for p in pois if p.get('type') == 'hotel'), None), as a list
FindHotel(ps) ==
    LET hs == SelectSeq(ps, IsHotel) IN IF hs = <<>> THEN <<>> ELSE <<hs[1]>>
VisitPois(ps) == SelectSeq(ps, IsVisit)

optimizer_vars == <<opt_pois, hotel, max_min_manha, max_min_tarde, dist_matrix,
                    current_solution, current_energy, best_energy, best_schedule,
                    new_solution, new_eval, min_seen, it, temp, optimized_schedule>>

ReturnNoHotel ==
    /\ pc = "call"
    /\ FindHotel(pois) = <<>>
    /\ result_none' = TRUE
    /\ msg' = MSG_NO_HOTEL
    /\ pc' = "return"
    /\ UNCHANGED <<pois, pois_in, max_h_manha, max_h_tarde, result, optimizer_vars>>

\* the no-visit path stamping every non-hotel record day 0
ReturnNoVisit_Stamped ==
    /\ pc = "call"
    /\ FindHotel(pois) # <<>>
    /\ VisitPois(pois) = <<>>
    /\ result' = [j \in 1..Len(pois) |-> IF pois[j].type = "hotel" THEN pois[j]
                                         ELSE Update(pois[j], [day |-> 0, period |-> "-"])]
    /\ msg' = MSG_NO_VISIT
    /\ pc' = "return"
    /\ UNCHANGED <<pois, pois_in, max_h_manha, max_h_tarde, result_none, optimizer_vars>>

\* the no-visit path running the optimizer on an empty list of visits
ReturnNoVisit_Optimized ==
    /\ pc = "call"
    /\ FindHotel(pois) # <<>>
    /\ VisitPois(pois) = <<>>
    /\ dist_matrix' = PrecomputeDistances(<<>>, FindHotel(pois)[1])
    /\ result' = pois
    /\ msg' = MSG_DONE
    /\ pc' = "return"
    /\ UNCHANGED <<pois, pois_in, max_h_manha, max_h_tarde, result_none,
                   opt_pois, hotel, max_min_manha, max_min_tarde,
                   current_solution, current_energy, best_energy, best_schedule,
                   new_solution, new_eval, min_seen, it, temp, optimized_schedule>>

ReturnNoVisit ==
    /\ pc = "call"
    /\ FindHotel(pois) # <<>>
    /\ VisitPois(pois) = <<>>
    /\ result' = pois
    /\ msg' = MSG_NO_VISIT
    /\ pc' = "return"
    /\ UNCHANGED <<pois, pois_in, max_h_manha, max_h_tarde, result_none, optimizer_vars>>

\* TravelOptimizer.__init__, then solve_simulated_annealing up to its loop
StartAnnealing ==
    /\ pc = "call"
    /\ FindHotel(pois) # <<>>
    /\ VisitPois(pois) # <<>>
    /\ LET h == FindHotel(pois)[1]
           ps == VisitPois(pois)
           mm == (max_h_manha * 60) + TOLERANCIA_MINUTOS
           mt == (max_h_tarde * 60) + TOLERANCIA_MINUTOS
       IN \E dm \in {PrecomputeDistances(ps, h)} :
          \E p \in Orderings(ps) :              \* random.shuffle
          \E ev \in {EvaluateSchedule(Permuted(ps, p), h, dm, mm, mt)} :
               /\ opt_pois' = ps
               /\ hotel' = <<h>>
               /\ max_min_manha' = mm
               /\ max_min_tarde' = mt
               /\ dist_matrix' = dm
               /\ current_solution' = Permuted(ps, p)
               /\ current_energy' = Energy(ev)
               /\ best_energy' = Energy(ev)
               /\ best_schedule' = ev.schedule
               /\ new_solution' = Permuted(ps, p)
               /\ new_eval' = ev
               /\ min_seen' = Energy(ev)
    /\ it' = 0
    /\ temp' = TEMP_INICIAL * 1000
    /\ pc' = "loop"
    /\ UNCHANGED <<pois, pois_in, max_h_manha, max_h_tarde, result, result_none, msg,
                   optimized_schedule>>

\* random.sample(range(len(new_solution)), 2) with fewer than two positions
SampleRaises ==
    /\ pc = "loop"
    /\ it < iterations
    /\ Len(current_solution) < 2
    /\ new_solution' = current_solution
    /\ pc' = "raise"
    /\ UNCHANGED <<pois, pois_in, max_h_manha, max_h_tarde, result, result_none, msg,
                   opt_pois, hotel, max_min_manha, max_min_tarde, dist_matrix,
                   current_solution, current_energy, best_energy, best_schedule,
                   new_eval, min_seen, it, temp, optimized_schedule>>

\* temp is held in thousandths; math.exp(x) is 0.0 for x below about -745
CanAcceptWorse(delta, t) == delta * 1000 < 745 * t
Cooled(t) == (t * COOLING_PERMILLE) \div 1000

\* the best follows every accepted candidate
Improves_Always(new_energy, best) == TRUE

\* if new_energy < best_energy
Improves(new_energy, best) == new_energy < best

\* One loop iteration; accept is the outcome of the acceptance test.
AnnealStep(idx1, idx2, accept) ==
    /\ pc = "loop"
    /\ it < iterations
    /\ Len(current_solution) >= 2
    /\ idx1 # idx2
    /\ \E sol \in {Swap(current_solution, idx1, idx2)} :
       \E ev \in {EvaluateSchedule(sol, hotel[1], dist_matrix, max_min_manha, max_min_tarde)} :
       LET new_energy == Energy(ev)
           delta == new_energy - current_energy
       IN /\ IF accept
             THEN delta < 0 \/ CanAcceptWorse(delta, temp)   \* random() < exp(-delta/temp)
             ELSE delta > 0                                  \* random() >= exp(-delta/temp)
          /\ new_solution' = sol
          /\ new_eval' = ev
          /\ min_seen' = IF new_energy < min_seen THEN new_energy ELSE min_seen
          /\ IF accept
             THEN /\ current_solution' = sol
                  /\ current_energy' = new_energy
                  /\ IF Improves(new_energy, best_energy)
                     THEN best_energy' = new_energy /\ best_schedule' = ev.schedule
                     ELSE UNCHANGED <<best_energy, best_schedule>>
             ELSE UNCHANGED <<current_solution, current_energy, best_energy, best_schedule>>
    /\ temp' = Cooled(temp)
    /\ it' = it + 1
    /\ UNCHANGED <<pois, pois_in, max_h_manha, max_h_tarde, pc, result, result_none, msg,
                   opt_pois, hotel, max_min_manha, max_min_tarde, dist_matrix,
                   optimized_schedule>>

AnnealAccept == \E idx1, idx2 \in 1..Len(current_solution) : AnnealStep(idx1, idx2, TRUE)
AnnealReject == \E idx1, idx2 \in 1..Len(current_solution) : AnnealStep(idx1, idx2, FALSE)

\* every visit POI is appended again, placed or not
FinalList_NoFilter(h, sched, ps) ==
    <<[id |-> h.id, pos |-> h.pos, type |-> "hotel", day |-> 0, period |-> "Base",
       time_min |-> 0]>>
    \o sched
    \o [j \in 1..Len(ps) |-> Update(ps[j], [day |-> 0, period |-> "-"])]

\* the list solve_simulated_annealing builds after its loop
FinalList(h, sched, ps) ==
    LET visited_ids == Ids(sched)
        Unvisited(p) == p.id \notin visited_ids
        left == SelectSeq(ps, Unvisited)
    IN <<[id |-> h.id, pos |-> h.pos, type |-> "hotel", day |-> 0, period |-> "Base",
          time_min |-> 0]>>
       \o sched
       \o [j \in 1..Len(left) |-> Update(left[j], [day |-> 0, period |-> "-"])]

FinishAnnealing ==
    /\ pc = "loop"
    /\ it = iterations
    /\ optimized_schedule' = FinalList(hotel[1], best_schedule, opt_pois)
    /\ pc' = "solved"
    /\ UNCHANGED <<pois, pois_in, max_h_manha, max_h_tarde, result, result_none, msg,
                   opt_pois, hotel, max_min_manha, max_min_tarde, dist_matrix,
                   current_solution, current_energy, best_energy, best_schedule,
                   new_solution, new_eval, min_seen, it, temp>>

\* the stamping loop left out
StampOthers_None(ps, optimized_ids) == ps

\* the caller's records after the loop "for o in others" has stamped them
StampOthers(ps, optimized_ids) ==
    [j \in 1..Len(ps) |-> IF ps[j].id \notin optimized_ids
                          THEN Update(ps[j], [day |-> 0, period |-> "-"])
                          ELSE ps[j]]

Assemble ==
    /\ pc = "solved"
    /\ LET optimized_ids == Ids(optimized_schedule)
           Other(p) == p.id \notin optimized_ids
       IN /\ pois' = StampOthers(pois, optimized_ids)
          /\ result' = optimized_schedule \o SelectSeq(pois', Other)
    /\ msg' = MSG_DONE
    /\ pc' = "return"
    /\ UNCHANGED <<pois_in, max_h_manha, max_h_tarde, result_none, optimizer_vars>>

Next ==
    \/ ReturnNoHotel
    \/ ReturnNoVisit
    \/ StartAnnealing
    \/ SampleRaises
    \/ AnnealAccept
    \/ AnnealReject
    \/ FinishAnnealing
    \/ Assemble

Spec == Init /\ [][Next]_vars

\* ------------------------------------------- the packer on explicit orders
\* A second specification: an optimizer is constructed and _evaluate_schedule
\* is called on explicit orderings of its POIs, first as at the start of
\* solve_simulated_annealing (current_solution), then as on a candidate
\* (new_solution); the candidate is any ordering, not only a swap away.

PackDur == {60, 80, 100, 600}
LineGap == {0, 834, 20000}          \* metres from the hotel to the first POI of the line

Reverse(s) == [j \in 1..Len(s) |-> s[Len(s) + 1 - j]]

FreshVisit(i, at, dur) ==
    [id |-> i, type |-> "visit", pos |-> at, time_min |-> dur, day |-> 0]

\* a hotel and up to MaxVisit visits at the positions Init uses
FamilyInputs ==
    UNION {{[ps |-> <<HotelPoi(FALSE)>> \o [j \in 1..n |-> VisitPoi(j, d[j], FALSE)],
             hm |-> a, ht |-> b] : d \in [1..n -> PackDur], a \in Hours, b \in Hours}
           : n \in 1..MaxVisit}

\* three visits of 60 minutes on a line, 834 m (10 walking minutes) apart,
\* and a morning of 4 hours
LineInputs ==
    {[ps |-> <<HotelPoi(FALSE)>> \o [j \in 1..3 |-> FreshVisit(j, g + 834 * (j - 1), 60)],
      hm |-> 4, ht |-> b] : g \in LineGap, b \in Hours \cup {4, 8}}

\* A long tour under 8-hour budgets: ten pairs of short visits, 296.4 km from
\* the hotel (a 508-minute drive) and 42.35 km from each other (a 508-minute
\* walk), one more short visit next to the first, and twenty visits of 505
\* minutes at the hotel's own position.
TourPoi(i) ==
    IF i <= 20
    THEN (IF i % 2 = 1 THEN FreshVisit(i, 296400, IF i = 1 THEN 1 ELSE 2)
                       ELSE FreshVisit(i, 338750, 2))
    ELSE IF i = 21 THEN FreshVisit(i, 296400, 1)
    ELSE FreshVisit(i, 0, 505)

TourInput == [ps |-> <<HotelPoi(FALSE)>> \o [j \in 1..41 |-> TourPoi(j)], hm |-> 8, ht |-> 8]

\* the orderings a call is made with: every one of them for a short list,
\* the given one and its reverse for a long one
ExplicitOrderings(ps) ==
    IF Len(ps) <= MaxVisit THEN {Permuted(ps, p) : p \in Orderings(ps)}
    ELSE {ps, Reverse(ps)}

InitPacker ==
    /\ \E inp \in FamilyInputs \cup LineInputs \cup {TourInput} :
          /\ pois = inp.ps
          /\ max_h_manha = inp.hm
          /\ max_h_tarde = inp.ht
    /\ pois_in = pois
    /\ opt_pois = VisitPois(pois)
    /\ hotel = FindHotel(pois)
    /\ max_min_manha = (max_h_manha * 60) + TOLERANCIA_MINUTOS
    /\ max_min_tarde = (max_h_tarde * 60) + TOLERANCIA_MINUTOS
    /\ dist_matrix = PrecomputeDistances(opt_pois, hotel[1])
    /\ current_solution \in ExplicitOrderings(opt_pois)
    /\ new_solution = current_solution
    /\ pc = "pack"
    /\ result = <<>>
    /\ result_none = FALSE
    /\ msg = ""
    /\ current_energy = 0
    /\ best_energy = 0
    /\ best_schedule = <<>>
    /\ new_eval = NoEval
    /\ min_seen = 0
    /\ it = 0
    /\ temp = 0
    /\ optimized_schedule = <<>>

\* current_sched, curr_vis, curr_trav = self._evaluate_schedule(current_solution)
PackFirst ==
    /\ pc = "pack"
    /\ \E ev \in {EvaluateSchedule(current_solution, hotel[1], dist_matrix,
                                   max_min_manha, max_min_tarde)} :
          /\ current_energy' = Energy(ev)
          /\ best_energy' = Energy(ev)
          /\ best_schedule' = ev.schedule
          /\ new_eval' = ev
          /\ min_seen' = Energy(ev)
    /\ pc' = "first"
    /\ UNCHANGED <<pois, pois_in, max_h_manha, max_h_tarde, result, result_none, msg,
                   opt_pois, hotel, max_min_manha, max_min_tarde, dist_matrix,
                   current_solution, new_solution, it, temp, optimized_schedule>>

\* new_sched, new_vis, new_trav = self._evaluate_schedule(new_solution)
PackSecond ==
    /\ pc = "first"
    /\ \E sol \in ExplicitOrderings(opt_pois) :
       \E ev \in {EvaluateSchedule(sol, hotel[1], dist_matrix,
                                   max_min_manha, max_min_tarde)} :
          /\ new_solution' = sol
          /\ new_eval' = ev
          /\ min_seen' = IF Energy(ev) < min_seen THEN Energy(ev) ELSE min_seen
    /\ pc' = "second"
    /\ UNCHANGED <<pois, pois_in, max_h_manha, max_h_tarde, result, result_none, msg,
                   opt_pois, hotel, max_min_manha, max_min_tarde, dist_matrix,
                   current_solution, current_energy, best_energy, best_schedule,
                   it, temp, optimized_schedule>>

NextPacker == PackFirst \/ PackSecond

SpecPacker == InitPacker /\ [][NextPacker]_vars

\* ------------------------------------------------------------ properties

RECURSIVE PeriodLoad(_, _, _)
PeriodLoad(sched, d, per) ==
    IF sched = <<>> THEN 0
    ELSE (IF Head(sched).day = d /\ Head(sched).period = per
          THEN Head(sched).transit_prev + Head(sched).time_min ELSE 0)
         + PeriodLoad(Tail(sched), d, per)

PeriodSize(sched, d, per) ==
    Cardinality({j \in 1..Len(sched) : sched[j].day = d /\ sched[j].period = per})

\* C1: in the schedule _evaluate_schedule returns, the transit times plus
\* visit durations of the entries of one (day, period) sum to at most
\* budget_hours*60 + 30, with the morning budget for "Manhã" and the
\* afternoon budget for "Tarde".
C1_PeriodWithinBudget ==
    \A d \in 1..MAX_DIA :
       /\ PeriodLoad(new_eval.schedule, d, "Manhã") <= max_h_manha * 60 + 30
       /\ PeriodLoad(new_eval.schedule, d, "Tarde") <= max_h_tarde * 60 + 30

\* a morning of two visits that fits only thanks to the tolerance, with a
\* third visit pushed to a later period
C1_Witness ==
    /\ pc = "loop"
    /\ PeriodSize(new_eval.schedule, 1, "Manhã") = 2
    /\ PeriodLoad(new_eval.schedule, 1, "Manhã") > max_h_manha * 60
    /\ Len(new_eval.schedule) = 3

\* C7: visited_count is at most the length of the list given to
\* _evaluate_schedule, and no POI id occurs twice in the returned schedule.
C7_CountAndUniqueIds ==
    /\ new_eval.visited_count <= Len(new_solution)
    /\ \A a, b \in 1..Len(new_eval.schedule) :
          new_eval.schedule[a].id = new_eval.schedule[b].id => a = b

\* three visits given, two placed in the two periods of day 1, one never placed
C7_Witness ==
    /\ pc = "loop"
    /\ Len(new_solution) = 3
    /\ new_eval.visited_count = 2
    /\ PeriodSize(new_eval.schedule, 1, "Tarde") = 1
    /\ Len(new_eval.pendentes) = 1

HasType(ps, t) == \E j \in 1..Len(ps) : ps[j].type = t
NoOptimizerRun ==
    /\ dist_matrix = <<>>
    /\ new_eval = NoEval
    /\ current_solution = <<>>
    /\ it = 0
    /\ optimized_schedule = <<>>

\* C2: run_optimization_logic never changes a record of the caller's
\* collection: every record keeps the field values it had before the call.
C2_InputNeverMutated == pois = pois_in

\* C3: with a hotel and n >= 1 visit POIs the call returns a (collection,
\* message) pair; no exception escapes from the neighbour generation.
C3_NoException ==
    (HasType(pois_in, "hotel") /\ HasType(pois_in, "visit")) => pc # "raise"

\* C4: without a hotel the call returns a null result and the
\* configuration-error message, whatever the number of visits; no matrix is
\* built, no packing or annealing step runs, and the input is unchanged.
C4_NoHotelFailsFast ==
    ~HasType(pois_in, "hotel") =>
       /\ pc \in {"call", "return"}
       /\ NoOptimizerRun
       /\ pois = pois_in
       /\ pc = "return" => (result_none /\ result = <<>> /\ msg = MSG_NO_HOTEL)

\* no hotel, three visits, the call has returned
C4_Witness ==
    /\ pc = "return"
    /\ ~HasType(pois_in, "hotel")
    /\ Len(VisitPois(pois_in)) = 3
    /\ result_none

NoVisitReturn ==
    pc = "return" /\ HasType(pois_in, "hotel") /\ ~HasType(pois_in, "visit")

\* C5 as stated: with a hotel, no visit and a food POI, the returned food POI
\* has day = 0 whatever day it carried, and the message is the advisory.
C5_FoodStampedZero ==
    NoVisitReturn =>
       /\ msg = MSG_NO_VISIT
       /\ \A j \in 1..Len(result) : result[j].type = "food" => result[j].day = 0

\* C5 as amended: with a hotel, no visit and a food POI, the returned food POI
\* carries the day it carried in the input (0 only if it was 0 already), and
\* the message is the advisory.
C5_FoodKeepsDay ==
    NoVisitReturn =>
       /\ msg = MSG_NO_VISIT
       /\ \A j \in 1..Len(pois_in) :
             pois_in[j].type = "food" =>
                \E m \in 1..Len(result) :
                   /\ result[m].id = pois_in[j].id
                   /\ result[m].day = pois_in[j].day

\* the food POI came in with day 3 and is returned with day 3
C5_Witness ==
    /\ NoVisitReturn
    /\ \E j \in 1..Len(result) : result[j].type = "food" /\ result[j].day = 3

\* C6: with a hotel and no visit the call returns the original collection,
\* same records, same order, every field unchanged, with an advisory
\* message, and runs no optimization.
C6_NoVisitEchoesInput ==
    NoVisitReturn =>
       /\ ~result_none
       /\ result = pois_in
       /\ pois = pois_in
       /\ msg = MSG_NO_VISIT
       /\ NoOptimizerRun

\* hotel, food and transport records carrying a period from an earlier run
C6_Witness ==
    /\ NoVisitReturn
    /\ Len(result) = 3
    /\ \A j \in 1..Len(result) : "period" \in DOMAIN result[j]

RECURSIVE TransitSum(_)
TransitSum(sched) ==
    IF sched = <<>> THEN 0 ELSE Head(sched).transit_prev + TransitSum(Tail(sched))

\* the energy of a schedule, from its entries alone
ScheduleEnergy(sched) == TransitSum(sched) - Len(sched) * 10000

Stamped(r, d, per) == "period" \in DOMAIN r /\ r.day = d /\ r.period = per

\* C8: after the initial evaluation and after every iteration best_energy is
\* the minimum energy over the initial permutation and every candidate
\* evaluated so far, rejected ones included (min_seen records that minimum,
\* which never increases); best_schedule is the schedule with that energy,
\* and it is the one the returned list is built from, not the schedule of
\* the final current state.
C8_BestIsMinimumSeen ==
    opt_pois # <<>> =>
       /\ best_energy = min_seen
       /\ best_energy <= current_energy
       /\ ScheduleEnergy(best_schedule) = best_energy
       /\ pc \in {"solved", "return"} =>
             SubSeq(optimized_schedule, 2, Len(best_schedule) + 1) = best_schedule

\* the search ended on a worse state than the best one, after rejecting its
\* last candidate, and the list was built
C8_Witness ==
    /\ pc = "solved"
    /\ current_energy > best_energy
    /\ new_solution # current_solution
    /\ Len(optimized_schedule) > 1

\* C9: the list solve_simulated_annealing returns starts with the hotel with
\* day 0 and period "Base", continues with exactly the entries of the best
\* schedule in their order, and ends with one copy of each visit POI whose id
\* is absent from the best schedule, stamped day 0 and period "-".
C9_FinalListShape ==
    (pc \in {"solved", "return"} /\ opt_pois # <<>>) =>
       LET fl == optimized_schedule
           nb == Len(best_schedule)
           rest == SubSeq(fl, nb + 2, Len(fl))
           missing == Ids(opt_pois) \ Ids(best_schedule)
       IN /\ Len(fl) >= nb + 1
          /\ fl[1].id = hotel[1].id
          /\ fl[1].type = "hotel"
          /\ Stamped(fl[1], 0, "Base")
          /\ SubSeq(fl, 2, nb + 1) = best_schedule
          /\ Len(rest) = Cardinality(missing)
          /\ \A j \in 1..Len(rest) :
                /\ rest[j].id \in missing
                /\ Stamped(rest[j], 0, "-")
                /\ \E m \in 1..Len(opt_pois) :
                      /\ opt_pois[m].id = rest[j].id
                      /\ opt_pois[m].time_min = rest[j].time_min
                      /\ opt_pois[m].pos = rest[j].pos
                      /\ opt_pois[m].type = rest[j].type
          /\ \A id \in missing : \E j \in 1..Len(rest) : rest[j].id = id

\* two visits placed by the best schedule and one left unscheduled
C9_Witness ==
    /\ pc = "solved"
    /\ Len(best_schedule) = 2
    /\ Len(optimized_schedule) = 4
    /\ optimized_schedule[4].time_min = 600

\* C10: after a successful optimization every input POI that is neither a
\* visit nor the hotel appears in the returned collection after all entries
\* of the optimizer's list, with day 0 and period "-", whatever day and
\* period it carried in the input.
C10_OthersAppendedUnscheduled ==
    (pc = "return" /\ msg = MSG_DONE) =>
       LET n == Len(optimized_schedule)
       IN /\ ~result_none
          /\ Len(result) >= n
          /\ SubSeq(result, 1, n) = optimized_schedule
          /\ \A j \in 1..Len(pois_in) :
                pois_in[j].type \notin {"visit", "hotel"} =>
                   \E m \in (n + 1)..Len(result) :
                      /\ result[m].id = pois_in[j].id
                      /\ Stamped(result[m], 0, "-")

\* a food and a transport POI that came in with day 3 end the returned list
C10_Witness ==
    /\ pc = "return"
    /\ msg = MSG_DONE
    /\ \E j \in 1..Len(pois_in) : pois_in[j].type = "food" /\ pois_in[j].day = 3
    /\ result[Len(result)].type = "transport"
    /\ result[Len(result) - 1].type = "food"

\* ---------------------------------------- properties of the packer's result

SamePeriod(a, b) == a.day = b.day /\ a.period = b.period

\* positions of sched before j that hold an entry of the same (day, period),
\* and positions that hold a morning entry of the same day
EarlierInPeriod(sched, j) == {k \in 1..(j - 1) : SamePeriod(sched[k], sched[j])}
MorningOfDay(sched, j) ==
    {k \in 1..Len(sched) : sched[k].day = sched[j].day /\ sched[k].period = "Manhã"}

Max(S) == CHOOSE x \in S : \A y \in S : y <= x

\* the stop an entry is reached from
Predecessor(sched, j) ==
    IF EarlierInPeriod(sched, j) # {} THEN sched[Max(EarlierInPeriod(sched, j))]
    ELSE IF sched[j].period = "Tarde" /\ MorningOfDay(sched, j) # {}
         THEN sched[Max(MorningOfDay(sched, j))]
         ELSE hotel[1]

\* floor(distance_km / speed * 60), driving from the hotel, walking otherwise
ExpectedTransit(from, to) ==
    IF from.id = hotel[1].id
    THEN (Abs(from.pos - to.pos) * 60) \div (35 * 1000)
    ELSE (Abs(from.pos - to.pos) * 60) \div (5 * 1000)

\* C11: the transit time stamped on an entry is the travel time from its
\* predecessor: the entry before it in the same (day, period); for the first
\* afternoon entry the last morning entry of that day, or the hotel if that
\* morning is empty; for the first morning entry the hotel.  The time is at
\* driving speed exactly when the origin is the hotel, else at walking speed.
C11_TransitFromPredecessor ==
    \A j \in 1..Len(new_eval.schedule) :
       new_eval.schedule[j].transit_prev =
          ExpectedTransit(Predecessor(new_eval.schedule, j), new_eval.schedule[j])

\* one afternoon that starts from the morning's last stop, on foot, and a
\* later afternoon that starts from the hotel because its morning is empty
C11_Witness ==
    LET sched == new_eval.schedule
    IN /\ \E j \in 1..Len(sched) :
             /\ sched[j].period = "Tarde"
             /\ EarlierInPeriod(sched, j) = {}
             /\ MorningOfDay(sched, j) # {}
             /\ sched[j].transit_prev > 0
       /\ \E j \in 1..Len(sched) :
             /\ sched[j].period = "Tarde"
             /\ MorningOfDay(sched, j) = {}
             /\ sched[j].transit_prev > 0

NotFirstOfPeriod(sched, j) == EarlierInPeriod(sched, j) # {}

\* C12 as stated: every entry of a (day, period) other than its first carries
\* a strictly positive transit time, however close the POIs are.
C12_PositiveTransit ==
    \A j \in 1..Len(new_eval.schedule) :
       NotFirstOfPeriod(new_eval.schedule, j) => new_eval.schedule[j].transit_prev > 0

\* C12 as amended: every entry other than the first of its (day, period)
\* carries a transit time >= 0, which is 0 exactly when the entry is less
\* than one walking minute (5000/60 m) from its predecessor.
C12_TransitZeroOnlyWhenClose ==
    \A j \in 1..Len(new_eval.schedule) :
       NotFirstOfPeriod(new_eval.schedule, j) =>
          LET e == new_eval.schedule[j]
              from == Predecessor(new_eval.schedule, j)
          IN /\ e.transit_prev >= 0
             /\ (e.transit_prev = 0) <=> (Abs(from.pos - e.pos) * 60 < 5 * 1000)

\* a second entry of a period that is 50 m from the first: it is reached in
\* less than a minute and carries transit 0
C12_Witness ==
    LET sched == new_eval.schedule
    IN \E j \in 1..Len(sched) :
          /\ NotFirstOfPeriod(sched, j)
          /\ sched[j].transit_prev = 0
          /\ Abs(Predecessor(sched, j).pos - sched[j].pos) = 50

\* executions of the day loop's body in a call that ended in ev: one per day
\* that placed something, and one more when the loop left through its break
DayIterations(ev) ==
    (ev.dia - 1) + (IF ev.pendentes # <<>> /\ ev.dia <= MAX_DIA THEN 1 ELSE 0)

\* a POI whose duration alone exceeds both period budgets
Degenerate(p) == p.time_min > max_min_manha /\ p.time_min > max_min_tarde

\* C13: _evaluate_schedule finishes after at most 10 day iterations and never
\* places a POI whose duration alone exceeds both budgets, and
\* solve_simulated_annealing finishes after exactly the iteration budget,
\* reporting such a POI with day = 0.
C13_PackerAndSearchFinish ==
    opt_pois # <<>> =>
       /\ DayIterations(new_eval) <= 10
       /\ \A j \in 1..Len(new_eval.schedule) : ~Degenerate(new_eval.schedule[j])
       /\ pc # "raise"
       /\ pc = "loop" => it <= iterations
       /\ pc \in {"solved", "return"} =>
             /\ it = iterations
             /\ \A m \in 1..Len(opt_pois) :
                   Degenerate(opt_pois[m]) =>
                      \E j \in 1..Len(optimized_schedule) :
                         /\ optimized_schedule[j].id = opt_pois[m].id
                         /\ optimized_schedule[j].day = 0

\* the call is made on three visits 10 walking minutes apart on a line, each
\* of 60 minutes, with a morning of 4 hours
LineCase ==
    /\ [ps |-> pois_in, hm |-> max_h_manha, ht |-> max_h_tarde] \in LineInputs
    /\ pc \in {"first", "second"}

\* C15: with a hotel, a 4-hour morning and three visits of 60 minutes, each
\* 10 walking minutes from its neighbour on a line, the packer places all
\* three in the morning of day 1 and leaves the afternoon empty, for each of
\* the six orderings given as the permutation.
C15_LineFitsOneMorning ==
    LineCase =>
       /\ Len(new_eval.schedule) = 3
       /\ \A j \in 1..3 :
             new_eval.schedule[j].day = 1 /\ new_eval.schedule[j].period = "Manhã"
       /\ new_eval.visited_count = 3
       /\ new_eval.pendentes = <<>>

\* the ordering first, third, second with the line 20 km from the hotel and a
\* 1-hour afternoon: the morning takes more than its 240 minutes
C15_Witness ==
    /\ LineCase
    /\ pc = "second"
    /\ max_h_tarde = 1
    /\ new_solution[1].id = 1 /\ new_solution[2].id = 3 /\ new_solution[3].id = 2
    /\ PeriodLoad(new_eval.schedule, 1, "Manhã") > 240

\* C16: of two packer results over the same POIs, hotel and budgets (budgets
\* of 1 to 8 hours, up to 10 days of two periods), the one that visits
\* strictly more POIs has the strictly lower energy
\* -(visited_count*10000) + total_travel_minutes.  The first result is the one
\* of current_solution (its schedule is best_schedule, its energy
\* current_energy), the second the one of new_solution.
C16_CoverageDominatesTravel ==
    pc = "second" =>
       /\ new_eval.visited_count > Len(best_schedule) =>
             -(new_eval.visited_count * 10000) + new_eval.total_travel < current_energy
       /\ Len(best_schedule) > new_eval.visited_count =>
             current_energy < -(new_eval.visited_count * 10000) + new_eval.total_travel

\* C17: when _evaluate_schedule returns having used fewer than 10 days and
\* leaving POIs unplaced, every unplaced POI p has travel(hotel -> p) +
\* duration(p) above the morning budget and above the afternoon budget, so
\* that no further day would place it.
C17_EarlyStopOnlyWhenStuck ==
    (new_eval.dia - 1 < 10 /\ new_eval.pendentes # <<>>) =>
       \A j \in 1..Len(new_eval.pendentes) :
          LET p == new_eval.pendentes[j]
              cost == ExpectedTransit(hotel[1], p) + p.time_min
          IN /\ cost > max_h_manha * 60 + 30
             /\ cost > max_h_tarde * 60 + 30

\* two days were filled, the second one in its afternoon only, and one POI
\* is left that fits neither period
C17_Witness ==
    /\ new_eval.dia = 3
    /\ Len(new_eval.pendentes) = 1
    /\ \E j \in 1..Len(new_eval.schedule) :
          new_eval.schedule[j].day = 2 /\ MorningOfDay(new_eval.schedule, j) = {}

\* ids the schedule placed before the period (d, per) began
PlacedBefore(sched, d, per) ==
    {sched[j].id : j \in {k \in 1..Len(sched) :
                            \/ sched[k].day < d
                            \/ sched[k].day = d /\ per = "Tarde" /\ sched[k].period = "Manhã"}}

PlacedIn(sched, d, per) ==
    {sched[j].id : j \in {k \in 1..Len(sched) : sched[k].day = d /\ sched[k].period = per}}

\* the pending list when (d, per) began: the permutation less what was placed
PendingAt(perm, sched, d, per) ==
    LET Left(p) == p.id \notin PlacedBefore(sched, d, per) IN SelectSeq(perm, Left)

\* where the scan of (d, per) starts
StartOf(sched, d, per) ==
    LET morning == {k \in 1..Len(sched) : sched[k].day = d /\ sched[k].period = "Manhã"}
    IN IF per = "Tarde" /\ morning # {} THEN sched[Max(morning)].id ELSE hotel[1].id

RECURSIVE LoadOfIds(_, _)
LoadOfIds(sched, ids) ==
    IF sched = <<>> THEN 0
    ELSE (IF Head(sched).id \in ids
          THEN Head(sched).transit_prev + Head(sched).time_min ELSE 0)
         + LoadOfIds(Tail(sched), ids)

\* the verdict on the k-th pending POI of (d, per), from what the scan has
\* placed among the pending POIs before it
FitsWhenExamined(perm, sched, d, per, budget, k) ==
    LET pend == PendingAt(perm, sched, d, per)
        before == {m \in 1..(k - 1) : pend[m].id \in PlacedIn(sched, d, per)}
        loc == IF before = {} THEN StartOf(sched, d, per) ELSE pend[Max(before)].id
        acc == LoadOfIds(sched, {pend[m].id : m \in before})
    IN acc + GetDistTime(dist_matrix, loc, pend[k].id) + pend[k].time_min <= budget

PositionIn(perm, id) == CHOOSE k \in 1..Len(perm) : perm[k].id = id

FirstFit(perm, sched, d, per, budget) ==
    \A k \in 1..Len(PendingAt(perm, sched, d, per)) :
       (PendingAt(perm, sched, d, per)[k].id \in PlacedIn(sched, d, per))
          <=> FitsWhenExamined(perm, sched, d, per, budget, k)

\* C18: each period scan is one forward first-fit pass over the pending list
\* in permutation order: a pending POI is placed if and only if, when it is
\* examined, accumulated time + travel(current location -> POI) + duration is
\* within the period budget; a rejected POI does not end the scan; and the
\* entries of a (day, period) keep the relative order of the permutation.
C18_SingleForwardFirstFit ==
    /\ \A d \in 1..DayIterations(new_eval) :
          /\ FirstFit(new_solution, new_eval.schedule, d, "Manhã", max_min_manha)
          /\ FirstFit(new_solution, new_eval.schedule, d, "Tarde", max_min_tarde)
    /\ \A a, b \in 1..Len(new_eval.schedule) :
          (a < b /\ SamePeriod(new_eval.schedule[a], new_eval.schedule[b])) =>
             PositionIn(new_solution, new_eval.schedule[a].id)
                < PositionIn(new_solution, new_eval.schedule[b].id)

\* a morning in which a POI is rejected and a later POI of the pending list
\* is placed, while two POIs share the morning
C18_Witness ==
    LET pend == PendingAt(new_solution, new_eval.schedule, 1, "Manhã")
        here == PlacedIn(new_eval.schedule, 1, "Manhã")
    IN /\ pc \in {"first", "second"}
       /\ Cardinality(here) = 2
       /\ \E k, m \in 1..Len(pend) : k < m /\ pend[k].id \notin here /\ pend[m].id \in here

DaysUsed(sched) == {sched[j].day : j \in 1..Len(sched)}

\* C19: the days used by a schedule of _evaluate_schedule are exactly 1..k
\* for some k <= 10, every one of them with at least one entry, and the list
\* is ordered by non-decreasing day with the morning entries of a day before
\* its afternoon entries.
C19_DaysContiguousAndOrdered ==
    LET sched == new_eval.schedule
        k == new_eval.dia - 1
    IN /\ k <= MAX_DIA
       /\ DaysUsed(sched) = 1..k
       /\ \A a, b \in 1..Len(sched) :
             a < b =>
                /\ sched[a].day <= sched[b].day
                /\ (sched[a].day = sched[b].day /\ sched[a].period = "Tarde")
                      => sched[b].period = "Tarde"

\* a schedule that fills the morning and the afternoon of day 1 and goes on
\* to day 2
C19_Witness ==
    LET sched == new_eval.schedule
    IN /\ pc \in {"first", "second"}
       /\ \E a, b, c \in 1..Len(sched) :
             /\ sched[a].day = 1 /\ sched[a].period = "Manhã"
             /\ sched[b].day = 1 /\ sched[b].period = "Tarde"
             /\ sched[c].day = 2

Occurrences(s, id) == Cardinality({j \in 1..Len(s) : s[j].id = id})

IsPermutationOf(s, t) ==
    /\ Len(s) = Len(t)
    /\ \A m \in 1..Len(t) : Occurrences(s, t[m].id) = 1

\* C20: a successful optimization conserves the POIs: the returned
\* collection holds each input id exactly once, so it is as long as the
\* input; and through every accepted and rejected swap the current
\* permutation is a permutation of the visit-POIs.
C20_PoisConserved ==
    /\ (pc = "return" /\ msg = MSG_DONE) =>
          /\ Len(result) = Len(pois_in)
          /\ \A m \in 1..Len(pois_in) : Occurrences(result, pois_in[m].id) = 1
    /\ pc \in {"loop", "solved"} =>
          /\ IsPermutationOf(current_solution, opt_pois)
          /\ IsPermutationOf(new_solution, opt_pois)

\* a successful return after an accepted swap, with a food and a transport
\* POI in the input and a visit left unscheduled
C20_Witness ==
    /\ pc = "return"
    /\ msg = MSG_DONE
    /\ current_solution # opt_pois
    /\ HasType(pois_in, "food")
    /\ \E j \in 1..Len(result) : result[j].type = "visit" /\ result[j].day = 0

====
